---- MODULE Spec2Model ----
(***************************************************************************)
(* Clip selection of shortclips: SceneDetector.get_natural_cut_points      *)
(* (src/scene_detector.py) and ClipOrchestrator._find_best_segments with   *)
(* its helper _adjust_to_scenes (src/orchestrator.py).                     *)
(*                                                                         *)
(* Times are Python floats in the source.  Here a time is an integer       *)
(* number of ticks, Scale ticks to the second, with Scale chosen so that   *)
(* total / (num_clips + 1) and interval * (i + 0.5) are exact for every    *)
(* num_clips the model draws: the arithmetic is that of exact rationals.   *)
(***************************************************************************)
EXTENDS Integers, Sequences, FiniteSets

\* ---------------------------------------------------------------- bounds
MaxScenes == 3

MaxSceneDur == 4

MaxFirstStart == 1

MaxClipDuration == 3

MaxNumClips == 3

MaxSegments == 2

\* the scenario specification: scene lists of up to MaxScenarioScenes scenes
\* of 10, 20, .. 10 * MaxScenarioTens seconds
MaxScenarioScenes == 6

MaxScenarioTens == 3

\* the specifications that call twice and the pipeline runs: scene lists
\* of up to MaxShortScenes scenes of up to MaxShortSceneDur seconds
MaxShortScenes == 2

MaxShortSceneDur == 2

\* runs of the pipeline that share the working directory
MaxRuns == 2

\* direct calls of _get_clip_text: segments of up to MaxSegmentHalves half
\* seconds, ranges with bounds up to MaxRangeHalves half seconds
MaxSegmentHalves == 2

MaxRangeHalves == 5

\* ------------------------------------------------------------- arithmetic
RECURSIVE Factorial(_)
Factorial(n) == IF n <= 1 THEN 1 ELSE n * Factorial(n - 1)

\* ticks per second: divisible by 2 * (num_clips + 1) for num_clips <= MaxNumClips
Scale == 2 * Factorial(MaxNumClips + 1)

Abs(x) == IF x < 0 THEN -x ELSE x

Min(a, b) == IF a <= b THEN a ELSE b

RECURSIVE SumTo(_, _)
SumTo(ds, k) == IF k = 0 THEN 0 ELSE ds[k] + SumTo(ds, k - 1)

\* ------------------------------------------------------------------ state
VARIABLES scenes, min_clip_duration, max_clip_duration, called, clips,
          num_clips, potential_clips, fallback, result, error, history,
          pc, entry, transcript_data, results, clip_index, create_clip_calls,
          files, runs, text_call

\* a run of process_video / process_local_video: its position, the entry
\* point, the transcript segments, the 'results' dictionary, the index of
\* the rendering loop and the calls of create_clip made so far
pipelineVars ==
    <<pc, entry, transcript_data, results, clip_index, create_clip_calls>>

\* the files on disk that runs write (each path with the run whose data it
\* holds) and the runs of the pipeline that share the disk
fileVars == <<files, runs>>

vars == <<scenes, min_clip_duration, max_clip_duration, called, clips,
          num_clips, potential_clips, fallback, result, error, history,
          pipelineVars, fileVars, text_call>>

\* detect_scenes: scene k runs from the end of scene k-1, 'duration' = end - start
SceneList(first, ds) ==
    [k \in 1..Len(ds) |->
        [start    |-> (first + SumTo(ds, k - 1)) * Scale,
         end      |-> (first + SumTo(ds, k)) * Scale,
         duration |-> ds[k] * Scale]]

SceneLists ==
    {SceneList(first, ds) :
        first \in 0..MaxFirstStart,
        ds \in UNION {[1..n -> 1..MaxSceneDur] : n \in 0..MaxScenes}}

ScenarioSceneLists ==
    {SceneList(0, ds) :
        ds \in UNION {[1..n -> {10 * d : d \in 1..MaxScenarioTens}] :
                         n \in 0..MaxScenarioScenes}}

ShortSceneLists ==
    {SceneList(0, ds) :
        ds \in UNION {[1..n -> 1..MaxShortSceneDur] :
                         n \in 0..MaxShortScenes}}

\* config.py lines 25 and 26: the defaults of MIN_CLIP_DURATION and
\* MAX_CLIP_DURATION
DefaultMinClipDuration == 15

DefaultMaxClipDuration == 60

\* Settings: int(os.getenv(...)), not validated anywhere
ClipDurations == {d * Scale : d \in 0..MaxClipDuration}

NumClipsArgs == (-1)..MaxNumClips

\* a text as the sequence of its characters: the j-th segment says a word
\* of j letters
Word(j) == [c \in 1..j |-> "w"]

\* transcribe: k segments of one second each, one after the other, with
\* their (stripped) texts
Transcript(k) ==
    [j \in 1..k |->
        [start |-> (j - 1) * Scale, end |-> j * Scale, text |-> Word(j)]]

TranscriptLists == {Transcript(k) : k \in 0..MaxSegments}

\* ------------------------------------------- SceneDetector (scene_detector.py)
\* mutant of ExceedsMax: the check made before the scene is added
ExceedsMaxBeforeAdding(current_duration, scene_duration, max_duration) ==
    current_duration > max_duration

\* line 105: adding this scene exceeds the max duration
ExceedsMax(current_duration, scene_duration, max_duration) ==
    current_duration + scene_duration > max_duration

\* lines 106 and 118: the accumulated window meets the minimum duration
MeetsMin(current_duration, min_duration) == current_duration >= min_duration

\* lines 107-111 and 119-123: clips.append({...})
AppendClip(cs, start, end, duration) ==
    Append(cs, [start |-> start, end |-> end, duration |-> duration])

\* mutant of CutLoop: a window closed below the minimum is not reset, it
\* goes on accumulating from where it started
RECURSIVE CutLoopKeepingShort(_, _, _, _, _, _, _)
CutLoopKeepingShort(ss, k, cs, current_start, current_duration, min_duration, max_duration) ==
    IF k > Len(ss)
    THEN [clips |-> cs, current_start |-> current_start,
          current_duration |-> current_duration]
    ELSE LET scene == ss[k]
             closes == /\ ExceedsMax(current_duration, scene.duration,
                                     max_duration)
                       /\ MeetsMin(current_duration, min_duration)
         IN  IF closes
             THEN CutLoopKeepingShort(ss, k + 1,
                          AppendClip(cs, current_start, scene.start,
                                     current_duration),
                          scene.start, scene.duration,
                          min_duration, max_duration)
             ELSE CutLoopKeepingShort(ss, k + 1, cs, current_start,
                          current_duration + scene.duration,
                          min_duration, max_duration)

\* lines 101-115: the loop, from scene k on, with the loop's three variables
RECURSIVE CutLoop(_, _, _, _, _, _, _)
CutLoop(ss, k, cs, current_start, current_duration, min_duration, max_duration) ==
    IF k > Len(ss)
    THEN [clips |-> cs, current_start |-> current_start,
          current_duration |-> current_duration]
    ELSE LET scene == ss[k]
             scene_duration == scene.duration
         IN  IF ExceedsMax(current_duration, scene_duration, max_duration)
             THEN CutLoop(ss, k + 1,
                          IF MeetsMin(current_duration, min_duration)
                          THEN AppendClip(cs, current_start, scene.start,
                                          current_duration)
                          ELSE cs,
                          scene.start, scene_duration,
                          min_duration, max_duration)
             ELSE CutLoop(ss, k + 1, cs, current_start,
                          current_duration + scene_duration,
                          min_duration, max_duration)

\* lines 97-125
GetNaturalCutPoints(ss, min_duration, max_duration) ==
    LET l == CutLoop(ss, 1, <<>>, 0, 0, min_duration, max_duration)
    IN  IF MeetsMin(l.current_duration, min_duration) /\ ss # <<>>
        THEN AppendClip(l.clips, l.current_start, ss[Len(ss)].end,
                        l.current_duration)
        ELSE l.clips

\* --------------------------------------- ClipOrchestrator (orchestrator.py)
\* lines 198 and 200: the literal 2 (seconds)
SnapTolerance == 2

\* mutant of WithinTolerance: <= for <
WithinToleranceOrEqual(boundary, value) ==
    Abs(boundary - value) <= SnapTolerance * Scale

\* lines 198 and 200: abs(scene[...] - value) < 2
WithinTolerance(boundary, value) == Abs(boundary - value) < SnapTolerance * Scale

\* lines 197-201: the loop, from scene k on; start and end are reassigned in
\* the loop, so every later comparison is against the value as snapped so far
RECURSIVE AdjustLoop(_, _, _, _)
AdjustLoop(ss, k, start, end) ==
    IF k > Len(ss)
    THEN [start |-> start, end |-> end]
    ELSE LET scene == ss[k]
         IN  AdjustLoop(ss, k + 1,
                        IF WithinTolerance(scene.start, start)
                        THEN scene.start ELSE start,
                        IF WithinTolerance(scene.end, end)
                        THEN scene.end ELSE end)

\* lines 193-203
AdjustToScenes(start, end, ss) == AdjustLoop(ss, 1, start, end)

\* mutant of NeedFallback: the test 'and scenes' left out
NeedFallbackIgnoringScenes(potential, n, ss) == Len(potential) < n

\* mutant of NeedFallback: any count other than num_clips
NeedFallbackUnequal(potential, n, ss) == Len(potential) # n /\ ss # <<>>

\* mutant of NeedFallback: <= for <
NeedFallbackOrEqual(potential, n, ss) == Len(potential) <= n /\ ss # <<>>

\* line 172: len(potential_clips) < num_clips and scenes
NeedFallback(potential, n, ss) == Len(potential) < n /\ ss # <<>>

\* mutant of Interval: the timeline divided by num_clips
IntervalPerClip(total_duration, n) == total_duration \div n

\* line 174: total_duration / (num_clips + 1), exact in ticks
Interval(total_duration, n) == total_duration \div (n + 1)

\* mutant of RawStart: interval / (i + 0.5)
RawStartDivided(interval, i) == (2 * interval) \div (2 * i + 1)

\* line 178: interval * (i + 0.5), exact in ticks
RawStart(interval, i) == (interval * (2 * i + 1)) \div 2

\* line 179: min(start + max_duration, total_duration)
RawEnd(start, max_duration, total_duration) ==
    Min(start + max_duration, total_duration)

\* mutant of KeepWindow: any non-empty window is kept
KeepWindowNonEmpty(start, end, min_duration) == end - start > 0

\* line 184: end - start >= min_duration
KeepWindow(start, end, min_duration) == end - start >= min_duration

\* lines 177-189, one record per iteration i of the loop: the window as
\* generated (raw_start, raw_end), as adjusted (start, end), and whether
\* it was appended
RECURSIVE FallbackLoop(_, _, _, _, _, _)
FallbackLoop(i, n, ss, trace, min_duration, max_duration) ==
    IF i >= n
    THEN trace
    ELSE LET total_duration == ss[Len(ss)].end
             interval == Interval(total_duration, n)
             start == RawStart(interval, i)
             end == RawEnd(start, max_duration, total_duration)
             adj == AdjustToScenes(start, end, ss)
         IN  FallbackLoop(i + 1, n, ss,
                          Append(trace,
                                 [i |-> i, raw_start |-> start, raw_end |-> end,
                                  start |-> adj.start, end |-> adj.end,
                                  kept |-> KeepWindow(adj.start, adj.end,
                                                      min_duration)]),
                          min_duration, max_duration)

\* lines 185-189: the windows appended, in the order of the loop
RECURSIVE KeptWindows(_, _)
KeptWindows(trace, k) ==
    IF k > Len(trace)
    THEN <<>>
    ELSE (IF trace[k].kept
          THEN <<[start |-> trace[k].start, end |-> trace[k].end,
                  duration |-> trace[k].end - trace[k].start]>>
          ELSE <<>>) \o KeptWindows(trace, k + 1)

\* mutant of PySlice: the list returned whole
PySliceAll(seq, n) == seq

\* line 191: potential_clips[:num_clips], Python's slice (a negative bound
\* counts from the end)
PySlice(seq, n) ==
    LET stop == IF n >= 0 THEN Min(n, Len(seq))
                ELSE (IF Len(seq) + n > 0 THEN Len(seq) + n ELSE 0)
    IN  SubSeq(seq, 1, stop)

\* lines 173-174, what Python raises there: scenes[-1] of an empty list,
\* a division by num_clips + 1 = 0
FallbackError(ss, n) ==
    IF ss = <<>> THEN "IndexError"
    ELSE IF n + 1 = 0 THEN "ZeroDivisionError"
    ELSE "none"

\* mutant of FindBestSegments: windows in which nothing is said are dropped
FindBestSegmentsWithSpeech(ss, segments, n, min_duration, max_duration) ==
    LET potential == GetNaturalCutPoints(ss, min_duration, max_duration)
        Spoken(c) == \E j \in DOMAIN segments :
                         segments[j].start >= c.start /\ segments[j].end <= c.end
    IN  [potential_clips |-> potential, fallback |-> <<>>,
         result |-> PySlice(SelectSeq(potential, Spoken), n),
         error |-> "none"]

\* lines 146-191: the candidates of line 165, the loop's trace (empty when
\* the branch of line 172 is not taken), the value returned and the
\* exception raised, if any (nothing is returned then).  segments, the
\* transcript, is a parameter the body never reads.
FindBestSegments(ss, segments, n, min_duration, max_duration) ==
    LET potential == GetNaturalCutPoints(ss, min_duration, max_duration)
        need == NeedFallback(potential, n, ss)
        raised == IF need THEN FallbackError(ss, n) ELSE "none"
        trace == IF need /\ raised = "none"
                 THEN FallbackLoop(0, n, ss, <<>>, min_duration, max_duration)
                 ELSE <<>>
        final == IF need THEN KeptWindows(trace, 1) ELSE potential
    IN  [potential_clips |-> potential, fallback |-> trace,
         result |-> IF raised = "none" THEN PySlice(final, n) ELSE <<>>,
         error |-> raised]

\* ------------------------------------------------------------------ spec
\* lines 46-50: the 'results' dictionary a run starts with
EmptyResults == [success |-> FALSE, clips |-> <<>>, errors |-> <<>>]

\* audio_transcriber.py line 36: os.path.join(settings.temp_dir,
\* "temp_audio.wav"), the same path for every video
TempAudioPath == <<"temp", "temp_audio.wav">>

\* video_processor.py line 70: os.path.join(self.output_dir,
\* f"{output_name}.mp4"), with output_name = clip_{k}
ClipPath(k) == <<"outputs", "clip", k, ".mp4">>

\* video_processor.py line 297: f"{output_name}_thumb.jpg"
ThumbnailPath(k) == <<"outputs", "clip", k, "_thumb.jpg">>

Paths ==
    {TempAudioPath}
    \cup {ClipPath(k) : k \in 1..MaxNumClips}
    \cup {ThumbnailPath(k) : k \in 1..MaxNumClips}

\* the directories as config.py lines 40-42 create them: no file; a file
\* is mapped to the run whose data it holds, 0 when it does not exist
NoFiles == [p \in Paths |-> 0]

\* no run of the pipeline has been started
NoRun ==
    /\ pc = "idle"
    /\ entry = "none"
    /\ transcript_data = <<>>
    /\ results = EmptyResults
    /\ clip_index = 0
    /\ create_clip_calls = <<>>
    /\ files = NoFiles
    /\ runs = <<>>
    /\ text_call = <<>>

Init ==
    /\ scenes \in SceneLists
    /\ min_clip_duration \in ClipDurations
    /\ max_clip_duration \in ClipDurations
    /\ called = "none"
    /\ clips = <<>>
    /\ num_clips = 0
    /\ potential_clips = <<>>
    /\ fallback = <<>>
    /\ result = <<>>
    /\ error = "none"
    /\ history = <<>>
    /\ NoRun

\* a call of scene_detector.get_natural_cut_points(scenes, min, max)
CallGetNaturalCutPoints ==
    /\ UNCHANGED <<fileVars, text_call>>
    /\ called = "none"
    /\ called' = "get_natural_cut_points"
    /\ clips' = GetNaturalCutPoints(scenes, min_clip_duration, max_clip_duration)
    /\ UNCHANGED <<scenes, min_clip_duration, max_clip_duration, num_clips,
                   potential_clips, fallback, result, error, history,
                   pipelineVars>>

\* mutant of FindBestSegmentsBody: the candidates kept on the orchestrator
\* and extended by every call, instead of a local list
FindBestSegmentsBodyKeepingClips(n, segments) ==
    /\ called' = "_find_best_segments"
    /\ num_clips' = n
    /\ LET fresh == GetNaturalCutPoints(scenes, min_clip_duration,
                                        max_clip_duration)
           potential == potential_clips \o fresh
           need == NeedFallback(potential, n, scenes)
           trace == IF need /\ FallbackError(scenes, n) = "none"
                    THEN FallbackLoop(0, n, scenes, <<>>, min_clip_duration,
                                      max_clip_duration)
                    ELSE <<>>
           final == IF need THEN KeptWindows(trace, 1) ELSE potential
       IN  /\ potential_clips' = potential
           /\ fallback' = trace
           /\ result' = PySlice(final, n)
           /\ error' = "none"
           /\ history' = Append(history,
                                [num_clips |-> n, segments |-> segments,
                                 result |-> PySlice(final, n),
                                 error |-> "none"])
    /\ UNCHANGED <<scenes, min_clip_duration, max_clip_duration, clips>>

\* the body of _find_best_segments(scenes, segments, num_clips = n): the
\* duration bounds are read from settings (lines 161-162); the candidates
\* and the windows are locals, scenes and settings are only read; history
\* lists the calls made so far, each with its arguments and what it returned
FindBestSegmentsBody(n, segments) ==
    /\ called' = "_find_best_segments"
    /\ num_clips' = n
    /\ LET r == FindBestSegments(scenes, segments, n,
                                 min_clip_duration, max_clip_duration)
       IN  /\ potential_clips' = r.potential_clips
           /\ fallback' = r.fallback
           /\ result' = r.result
           /\ error' = r.error
           /\ history' = Append(history,
                                [num_clips |-> n, segments |-> segments,
                                 result |-> r.result, error |-> r.error])
    /\ UNCHANGED <<scenes, min_clip_duration, max_clip_duration, clips>>

\* a call of _find_best_segments on a fresh orchestrator
CallFindBestSegments(n, segments) ==
    /\ UNCHANGED <<fileVars, text_call>>
    /\ called = "none"
    /\ FindBestSegmentsBody(n, segments)
    /\ UNCHANGED pipelineVars

\* the direct calls pass an empty transcript; SpecRepeat varies it
Next ==
    \/ CallGetNaturalCutPoints
    \/ \E n \in NumClipsArgs : CallFindBestSegments(n, <<>>)

Spec == Init /\ [][Next]_vars

\* The scenarios of the specification's section 8: scenes of tens of
\* seconds from time 0, the default minimum, and a maximum of 25 s or the
\* default.
InitScenario ==
    /\ scenes \in ScenarioSceneLists
    /\ min_clip_duration = DefaultMinClipDuration * Scale
    /\ max_clip_duration \in {25 * Scale, DefaultMaxClipDuration * Scale}
    /\ called = "none"
    /\ clips = <<>>
    /\ num_clips = 0
    /\ potential_clips = <<>>
    /\ fallback = <<>>
    /\ result = <<>>
    /\ error = "none"
    /\ history = <<>>
    /\ NoRun

SpecScenario == InitScenario /\ [][Next]_vars

\* Two calls of _find_best_segments on one orchestrator, with the same
\* scenes and settings.
InitRepeat ==
    /\ Init
    /\ scenes \in ShortSceneLists

\* a second call of _find_best_segments, after a first one has returned,
\* for the same number of clips and with any transcript
CallFindBestSegmentsAgain(n, segments) ==
    /\ UNCHANGED <<fileVars, text_call>>
    /\ called = "_find_best_segments"
    /\ Len(history) = 1
    /\ n = num_clips
    /\ FindBestSegmentsBody(n, segments)
    /\ UNCHANGED pipelineVars

NextRepeat ==
    \/ \E n \in NumClipsArgs : \E segments \in TranscriptLists :
           CallFindBestSegments(n, segments)
    \/ \E n \in NumClipsArgs : \E segments \in TranscriptLists :
           CallFindBestSegmentsAgain(n, segments)

SpecRepeat == InitRepeat /\ [][NextRepeat]_vars

\* ------------------------------------------- the pipeline (orchestrator.py)
\* One run of process_video or process_local_video on an orchestrator, from
\* the call to the return of 'results'.

\* line 212: " ".join(texts), on sequences of characters
RECURSIVE PyJoin(_)
PyJoin(texts) ==
    IF texts = <<>> THEN <<>>
    ELSE IF Len(texts) = 1 THEN texts[1]
    ELSE texts[1] \o <<" ">> \o PyJoin(Tail(texts))

\* mutant of GetClipText: every segment that overlaps the range is taken
GetClipTextOverlapping(segments, start, end) ==
    LET Overlaps(seg) == seg.end > start /\ seg.start < end
        clip_segments == SelectSeq(segments, Overlaps)
    IN  PyJoin([j \in DOMAIN clip_segments |-> clip_segments[j].text])

\* lines 205-212: the texts of the segments that lie inside [start, end],
\* in transcript order, joined
GetClipText(segments, start, end) ==
    LET Inside(seg) == seg.start >= start /\ seg.end <= end
        clip_segments == SelectSeq(segments, Inside)
    IN  PyJoin([j \in DOMAIN clip_segments |-> clip_segments[j].text])

\* lines 101 and 281: the list the rendering loop enumerates
LoopSegments == PySlice(result, num_clips)

\* lines 142-144 and 316-318: an exception of any stage ends the run with
\* its message appended to results['errors']
Raise(message) ==
    /\ results' = [results EXCEPT !.errors = Append(@, message)]
    /\ pc' = "returned"

\* the settings are those read at import (config.py); nothing is detected,
\* selected or rendered yet
InitPipeline ==
    /\ scenes = <<>>
    /\ min_clip_duration \in ClipDurations
    /\ max_clip_duration \in ClipDurations
    /\ called = "none"
    /\ clips = <<>>
    /\ num_clips = 0
    /\ potential_clips = <<>>
    /\ fallback = <<>>
    /\ result = <<>>
    /\ error = "none"
    /\ history = <<>>
    /\ NoRun

\* lines 29-50: process_video(video_url, num_clips = n)
ProcessVideo(n) ==
    /\ UNCHANGED <<fileVars, text_call>>
    /\ pc = "idle"
    /\ pc' = "download"
    /\ entry' = "process_video"
    /\ num_clips' = n
    /\ results' = EmptyResults
    /\ UNCHANGED <<scenes, min_clip_duration, max_clip_duration, called, clips,
                   potential_clips, fallback, result, error, history,
                   transcript_data, clip_index, create_clip_calls>>

\* lines 214-239: process_local_video(video_path, num_clips = n)
ProcessLocalVideo(n) ==
    /\ UNCHANGED <<fileVars, text_call>>
    /\ pc = "idle"
    /\ pc' = "transcribe"
    /\ entry' = "process_local_video"
    /\ num_clips' = n
    /\ results' = EmptyResults
    /\ UNCHANGED <<scenes, min_clip_duration, max_clip_duration, called, clips,
                   potential_clips, fallback, result, error, history,
                   transcript_data, clip_index, create_clip_calls>>

\* line 55: downloader.download returns or raises
Download(ok) ==
    /\ UNCHANGED <<fileVars, text_call>>
    /\ pc = "download"
    /\ IF ok THEN pc' = "transcribe" /\ UNCHANGED results
             ELSE Raise("Failed to download video")
    /\ UNCHANGED <<scenes, min_clip_duration, max_clip_duration, called, clips,
                   num_clips, potential_clips, fallback, result, error,
                   history, entry, transcript_data, clip_index,
                   create_clip_calls>>

\* lines 63-65 and 243-245: transcriber.transcribe returns the segments or
\* raises (from extract_audio or from the model)
Transcribe(outcome, segments) ==
    /\ UNCHANGED <<fileVars, text_call>>
    /\ pc = "transcribe"
    /\ IF outcome = "ok"
       THEN /\ pc' = "detect_scenes"
            /\ transcript_data' = segments
            /\ UNCHANGED results
       ELSE /\ Raise(outcome)
            /\ UNCHANGED transcript_data
    /\ UNCHANGED <<scenes, min_clip_duration, max_clip_duration, called, clips,
                   num_clips, potential_clips, fallback, result, error,
                   history, entry, clip_index, create_clip_calls>>

\* lines 71 and 251: scene_detector.detect_scenes returns the scenes (none
\* when the detector lists none) or raises
DetectScenes(ok, ss) ==
    /\ UNCHANGED <<fileVars, text_call>>
    /\ pc = "detect_scenes"
    /\ IF ok
       THEN /\ pc' = "analyze"
            /\ scenes' = ss
            /\ UNCHANGED results
       ELSE /\ Raise("Failed to detect scenes")
            /\ UNCHANGED scenes
    /\ UNCHANGED <<min_clip_duration, max_clip_duration, called, clips,
                   num_clips, potential_clips, fallback, result, error,
                   history, entry, transcript_data, clip_index,
                   create_clip_calls>>

\* lines 77 and 257: analyze_transcript catches its own exceptions
\* (content_analyzer.py) and always returns
AnalyzeTranscript ==
    /\ UNCHANGED <<fileVars, text_call>>
    /\ pc = "analyze"
    /\ pc' = "find_best_segments"
    /\ UNCHANGED <<scenes, min_clip_duration, max_clip_duration, called, clips,
                   num_clips, potential_clips, fallback, result, error,
                   history, entry, transcript_data, results, clip_index,
                   create_clip_calls>>

\* lines 83-87 and 263-267: _find_best_segments(scenes, segments, num_clips);
\* its IndexError or ZeroDivisionError is caught by the run's except clause
FindKeyMoments ==
    /\ UNCHANGED <<fileVars, text_call>>
    /\ pc = "find_best_segments"
    /\ FindBestSegmentsBody(num_clips, transcript_data)
    /\ IF error' = "none"
       THEN pc' = "music" /\ UNCHANGED results
       ELSE Raise(error')
    /\ UNCHANGED <<entry, transcript_data, clip_index, create_clip_calls>>

\* lines 92-97 and 272-277: get_default_music returns a path or None, its
\* exceptions are caught in music_manager.py
GetBackgroundMusic ==
    /\ UNCHANGED <<fileVars, text_call>>
    /\ pc = "music"
    /\ pc' = "render"
    /\ UNCHANGED <<scenes, min_clip_duration, max_clip_duration, called, clips,
                   num_clips, potential_clips, fallback, result, error,
                   history, entry, transcript_data, results, clip_index,
                   create_clip_calls>>

\* lines 101-128 and 281-308: one iteration of the rendering loop.
\* create_clip (video_processor.py lines 50-103) returns a dictionary with
\* 'success' True, or catches its exception and returns 'success' False
\* with the 'error'.
CreateClip(ok) ==
    /\ UNCHANGED <<fileVars, text_call>>
    /\ pc = "render"
    /\ clip_index < Len(LoopSegments)
    /\ LET segment == LoopSegments[clip_index + 1]
           clip_text == GetClipText(transcript_data, segment.start,
                                    segment.end)
           call == [output_name |-> clip_index + 1,
                    start_time |-> segment.start,
                    end_time |-> segment.end,
                    clip_text |-> clip_text,
                    success |-> ok]
           clip_result == [video_path |-> clip_index + 1,
                           duration |-> segment.end - segment.start,
                           text |-> clip_text]
       IN  /\ create_clip_calls' = Append(create_clip_calls, call)
           /\ results' = IF ok
                         THEN [results EXCEPT !.clips = Append(@, clip_result)]
                         ELSE [results EXCEPT
                                  !.errors = Append(@, "create_clip error")]
    /\ clip_index' = clip_index + 1
    /\ UNCHANGED <<scenes, min_clip_duration, max_clip_duration, called, clips,
                   num_clips, potential_clips, fallback, result, error,
                   history, pc, entry, transcript_data>>

\* mutant of Return: a run that reaches the end is a success
ReturnSuccessAlways ==
    /\ UNCHANGED <<fileVars, text_call>>
    /\ pc = "render"
    /\ clip_index = Len(LoopSegments)
    /\ results' = [results EXCEPT !.success = TRUE]
    /\ pc' = "returned"
    /\ UNCHANGED <<scenes, min_clip_duration, max_clip_duration, called, clips,
                   num_clips, potential_clips, fallback, result, error,
                   history, entry, transcript_data, clip_index,
                   create_clip_calls>>

\* lines 130-140 and 310-314: the loop is over, the run returns 'results'
Return ==
    /\ UNCHANGED <<fileVars, text_call>>
    /\ pc = "render"
    /\ clip_index = Len(LoopSegments)
    /\ results' = [results EXCEPT !.success = Len(results.clips) > 0]
    /\ pc' = "returned"
    /\ UNCHANGED <<scenes, min_clip_duration, max_clip_duration, called, clips,
                   num_clips, potential_clips, fallback, result, error,
                   history, entry, transcript_data, clip_index,
                   create_clip_calls>>

TranscribeOutcomes ==
    {"ok", "Failed to extract audio", "Failed to transcribe audio"}

NextPipeline ==
    \/ \E n \in NumClipsArgs : ProcessVideo(n)
    \/ \E n \in NumClipsArgs : ProcessLocalVideo(n)
    \/ \E ok \in BOOLEAN : Download(ok)
    \/ \E outcome \in TranscribeOutcomes : \E segments \in TranscriptLists :
           Transcribe(outcome, segments)
    \/ \E ok \in BOOLEAN : \E ss \in ShortSceneLists : DetectScenes(ok, ss)
    \/ AnalyzeTranscript
    \/ FindKeyMoments
    \/ GetBackgroundMusic
    \/ \E ok \in BOOLEAN : CreateClip(ok)
    \/ Return

SpecPipeline == InitPipeline /\ [][NextPipeline]_vars

\* --------------------------------------------- runs that share the disk
\* Up to MaxRuns runs of process_local_video, each on its own video, in one
\* working directory, one after the other or interleaved (two processes:
\* two invocations of cli.py, or two workers serving main.py). A step is
\* one operation on the files; the stages between them touch no file.
Runs == 1..MaxRuns

coreVars ==
    <<scenes, min_clip_duration, max_clip_duration, called, clips, num_clips,
      potential_clips, fallback, result, error, history, pipelineVars,
      text_call>>

InitRuns ==
    /\ scenes = <<>>
    /\ min_clip_duration = DefaultMinClipDuration * Scale
    /\ max_clip_duration = DefaultMaxClipDuration * Scale
    /\ called = "none"
    /\ clips = <<>>
    /\ num_clips = 0
    /\ potential_clips = <<>>
    /\ fallback = <<>>
    /\ result = <<>>
    /\ error = "none"
    /\ history = <<>>
    /\ pc = "idle"
    /\ entry = "none"
    /\ transcript_data = <<>>
    /\ results = EmptyResults
    /\ clip_index = 0
    /\ create_clip_calls = <<>>
    /\ text_call = <<>>
    /\ files = NoFiles
    /\ runs = [id \in Runs |->
                  [pc |-> "idle", transcribed |-> 0, segments |-> 0,
                   clip_index |-> 0, clips |-> <<>>, errors |-> <<>>]]

\* orchestrator.py lines 231-243: the run on video 'id' starts
StartRun(id) ==
    /\ runs[id].pc = "idle"
    /\ runs' = [runs EXCEPT ![id].pc = "extract_audio"]
    /\ UNCHANGED <<coreVars, files>>

\* audio_transcriber.py lines 36-42: extract_audio writes the video's audio
\* to the temporary file
ExtractAudio(id) ==
    /\ runs[id].pc = "extract_audio"
    /\ files' = [files EXCEPT ![TempAudioPath] = id]
    /\ runs' = [runs EXCEPT ![id].pc = "transcribe"]
    /\ UNCHANGED coreVars

\* audio_transcriber.py lines 59-89: the model transcribes what the
\* temporary file holds and the file is removed; when the file is no
\* longer there the model raises and the run returns the error
TranscribeAudio(id) ==
    /\ runs[id].pc = "transcribe"
    /\ IF files[TempAudioPath] = 0
       THEN /\ runs' = [runs EXCEPT
                           ![id].pc = "returned",
                           ![id].errors = <<"Failed to transcribe audio">>]
            /\ UNCHANGED files
       ELSE /\ runs' = [runs EXCEPT
                           ![id].pc = "select",
                           ![id].transcribed = files[TempAudioPath]]
            /\ files' = [files EXCEPT ![TempAudioPath] = 0]
    /\ UNCHANGED coreVars

\* orchestrator.py lines 251-281: scenes, analysis and selection; n is the
\* number of segments the rendering loop enumerates
SelectSegments(id, n) ==
    /\ runs[id].pc = "select"
    /\ runs' = [runs EXCEPT ![id].pc = "render", ![id].segments = n]
    /\ UNCHANGED <<coreVars, files>>

\* orchestrator.py lines 292-305 and video_processor.py lines 69-94: a
\* successful create_clip with output_name clip_{i+1} writes the clip and
\* its thumbnail, and the path is returned in results['clips']
WriteClip(id) ==
    /\ runs[id].pc = "render"
    /\ runs[id].clip_index < runs[id].segments
    /\ LET k == runs[id].clip_index + 1
       IN  /\ files' = [files EXCEPT ![ClipPath(k)] = id,
                                     ![ThumbnailPath(k)] = id]
           /\ runs' = [runs EXCEPT
                          ![id].clip_index = k,
                          ![id].clips = Append(@, [video_path |-> ClipPath(k),
                                                   thumbnail_path |-> ThumbnailPath(k)])]
    /\ UNCHANGED coreVars

\* orchestrator.py lines 310-314
ReturnRun(id) ==
    /\ runs[id].pc = "render"
    /\ runs[id].clip_index = runs[id].segments
    /\ runs' = [runs EXCEPT ![id].pc = "returned"]
    /\ UNCHANGED <<coreVars, files>>

NextRuns ==
    \E id \in Runs :
        \/ StartRun(id)
        \/ ExtractAudio(id)
        \/ TranscribeAudio(id)
        \/ \E n \in 0..MaxNumClips : SelectSegments(id, n)
        \/ WriteClip(id)
        \/ ReturnRun(id)

SpecRuns == InitRuns /\ [][NextRuns]_vars

\* ------------------------------------------- direct calls of _get_clip_text
\* half a second, in ticks
Half == Scale \div 2

\* a transcript whose segments follow one another from 'first', with the
\* lengths ds, all in half seconds
TimedTranscript(first, ds) ==
    [j \in 1..Len(ds) |->
        [start |-> (first + SumTo(ds, j - 1)) * Half,
         end   |-> (first + SumTo(ds, j)) * Half,
         text  |-> Word(j)]]

TimedTranscripts ==
    {TimedTranscript(first, ds) :
        first \in 0..1,
        ds \in UNION {[1..k -> 1..MaxSegmentHalves] : k \in 0..(MaxSegments + 1)}}

RangeTimes == {h * Half : h \in 0..MaxRangeHalves}

InitClipText ==
    /\ scenes = <<>>
    /\ min_clip_duration = DefaultMinClipDuration * Scale
    /\ max_clip_duration = DefaultMaxClipDuration * Scale
    /\ called = "none"
    /\ clips = <<>>
    /\ num_clips = 0
    /\ potential_clips = <<>>
    /\ fallback = <<>>
    /\ result = <<>>
    /\ error = "none"
    /\ history = <<>>
    /\ pc = "idle"
    /\ entry = "none"
    /\ transcript_data \in TimedTranscripts
    /\ results = EmptyResults
    /\ clip_index = 0
    /\ create_clip_calls = <<>>
    /\ files = NoFiles
    /\ runs = <<>>
    /\ text_call = <<>>

\* a call of _get_clip_text(segments, start, end) on the transcript
CallGetClipText(start, end) ==
    /\ text_call = <<>>
    /\ text_call' = [start |-> start, end |-> end,
                     text |-> GetClipText(transcript_data, start, end)]
    /\ UNCHANGED <<scenes, min_clip_duration, max_clip_duration, called, clips,
                   num_clips, potential_clips, fallback, result, error,
                   history, pipelineVars, fileVars>>

NextClipText == \E start, end \in RangeTimes : CallGetClipText(start, end)

SpecClipText == InitClipText /\ [][NextClipText]_vars

\* ---------------------------------------------------------------- claims
Range(seq) == {seq[k] : k \in DOMAIN seq}

Segmented == called = "get_natural_cut_points"

Selected == called = "_find_best_segments"

\* the fallback branch of line 172 was taken
OnFallbackPath == Selected /\ fallback # <<>>

\* the precondition of both components: 0 < min_duration <= max_duration
ValidBounds ==
    /\ 0 < min_clip_duration
    /\ min_clip_duration <= max_clip_duration

NoOversizedScene ==
    \A k \in DOMAIN scenes : scenes[k].duration <= max_clip_duration

Snapped(w) == w.start # w.raw_start \/ w.end # w.raw_end

\* C1: with 0 < min_duration <= max_duration and no scene longer than
\* max_duration, every clip get_natural_cut_points emits (called directly or
\* from _find_best_segments) has min_duration <= duration <= max_duration.
C1_DurationBound ==
    (ValidBounds /\ NoOversizedScene) =>
        \A c \in Range(clips) \cup Range(potential_clips) :
            /\ min_clip_duration <= c.duration
            /\ c.duration <= max_clip_duration

\* C1 witness: a call that emitted two clips from scenes that all fit, with
\* room between the two bounds.
C1_Witness ==
    /\ Segmented
    /\ ValidBounds
    /\ NoOversizedScene
    /\ min_clip_duration < max_clip_duration
    /\ Len(clips) >= 2
    /\ \E c \in Range(clips) : c.duration < max_clip_duration

\* C2: no window is emitted shorter than min_duration: every clip of
\* get_natural_cut_points and every window _find_best_segments returns,
\* fallback windows after the snap included, has duration >= min_duration
\* and end - start >= min_duration.
C2_NoShortClips ==
    \A c \in Range(clips) \cup Range(potential_clips) \cup Range(result) :
        /\ c.duration >= min_clip_duration
        /\ c.end - c.start >= min_clip_duration

\* C2 witness: a fallback run that discarded one adjusted window as too
\* short and kept another one that the snap had moved.
C2_Witness ==
    /\ OnFallbackPath
    /\ ValidBounds
    /\ \E w \in Range(fallback) : ~w.kept
    /\ \E w \in Range(fallback) : w.kept /\ Snapped(w)
    /\ result # <<>>

\* C3: the windows _find_best_segments returns do not overlap: each
\* window ends no later than the next one starts, on the candidate path and
\* on the fallback path.
C3_NonOverlapping ==
    (ValidBounds /\ Selected /\ num_clips >= 0) =>
        \A k \in 1..(Len(result) - 1) : result[k].end <= result[k + 1].start

\* C4: every window returned on the fallback path has
\* end - start <= max_duration, after the snap of _adjust_to_scenes.
C4_FallbackMaxDuration ==
    (ValidBounds /\ OnFallbackPath) =>
        \A c \in Range(result) : c.end - c.start <= max_clip_duration

\* C5: for num_clips >= 0, _find_best_segments returns at most num_clips
\* windows.
C5_AtMostNumClips ==
    (Selected /\ num_clips >= 0) => Len(result) <= num_clips

\* C5 witness: the segmenter found more candidates than asked for and the
\* result was cut to num_clips.
C5_Witness ==
    /\ Selected
    /\ num_clips >= 1
    /\ Len(potential_clips) > num_clips
    /\ Len(result) = num_clips

\* C6: the clips of get_natural_cut_points and the windows of
\* _find_best_segments (candidate path and fallback path after the snap)
\* are non-decreasing in start.
C6_NonDecreasingStart ==
    /\ \A k \in 1..(Len(clips) - 1) : clips[k].start <= clips[k + 1].start
    /\ \A k \in 1..(Len(potential_clips) - 1) :
           potential_clips[k].start <= potential_clips[k + 1].start
    /\ \A k \in 1..(Len(result) - 1) : result[k].start <= result[k + 1].start

\* C6 witness: a fallback run returning two windows or more, one of them
\* with a start moved by the snap.
C6_Witness ==
    /\ OnFallbackPath
    /\ Len(result) >= 2
    /\ \E w \in Range(fallback) : w.kept /\ w.start # w.raw_start

\* C7: when the segmenter yields at least num_clips candidates
\* (num_clips >= 0), _find_best_segments returns the first num_clips
\* candidates unchanged and in order, and runs no fallback.
C7_FirstCandidates ==
    (Selected /\ num_clips >= 0 /\ Len(potential_clips) >= num_clips) =>
        /\ fallback = <<>>
        /\ result = SubSeq(potential_clips, 1, num_clips)

\* C7 witness: exactly as many candidates as asked for, all returned.
C7_Witness ==
    /\ Selected
    /\ num_clips >= 2
    /\ Len(potential_clips) = num_clips
    /\ result = potential_clips

\* C8: with fewer than num_clips candidates and scenes non-empty, the
\* fallback generates for i = 0 .. num_clips-1, in this order, the raw window
\* start = (total / (num_clips + 1)) * (i + 0.5),
\* end = min(start + max_duration, total), total the end of the last scene,
\* and returns exactly the snap-adjusted windows with
\* end - start >= min_duration, in order, nothing in place of a discarded one.
C8_FallbackWindows ==
    (Selected /\ Len(potential_clips) < num_clips /\ scenes # <<>>) =>
        LET total == scenes[Len(scenes)].end
            Long(w) == w.end - w.start >= min_clip_duration
            kept == SelectSeq(fallback, Long)
        IN  /\ Len(fallback) = num_clips
            /\ \A k \in 1..num_clips :
                   LET w == fallback[k]
                       adj == AdjustToScenes(w.raw_start, w.raw_end, scenes)
                   IN  /\ w.i = k - 1
                       /\ w.raw_start * 2 * (num_clips + 1) = total * (2 * w.i + 1)
                       /\ w.raw_end = Min(w.raw_start + max_clip_duration, total)
                       /\ w.start = adj.start
                       /\ w.end = adj.end
            /\ Len(result) = Len(kept)
            /\ \A k \in 1..Len(kept) :
                   /\ result[k].start = kept[k].start
                   /\ result[k].end = kept[k].end
                   /\ result[k].duration = kept[k].end - kept[k].start

\* C8 witness: a fallback run of three windows that discarded one and
\* returned the others, one window capped at the end of the timeline.
C8_Witness ==
    /\ OnFallbackPath
    /\ ValidBounds
    /\ num_clips = 3
    /\ Len(result) = 2
    /\ \E w \in Range(fallback) : w.raw_end < w.raw_start + max_clip_duration

\* C9: if a scene start lies within 2 seconds of the window's raw start,
\* the adjusted start is the start of a scene within 2 seconds of the raw
\* start; if every scene start is further than 2 seconds away, the adjusted
\* start is the raw start.  The same for the end against scene ends.
C9_SnapTolerance ==
    (ValidBounds /\ Selected) =>
        \A w \in Range(fallback) :
            LET nearStart == {k \in DOMAIN scenes :
                                 WithinTolerance(scenes[k].start, w.raw_start)}
                nearEnd == {k \in DOMAIN scenes :
                               WithinTolerance(scenes[k].end, w.raw_end)}
            IN  /\ nearStart # {} =>
                       \E k \in nearStart : w.start = scenes[k].start
                /\ nearEnd # {} => \E k \in nearEnd : w.end = scenes[k].end
                /\ (\A k \in DOMAIN scenes :
                        Abs(scenes[k].start - w.raw_start) > SnapTolerance * Scale)
                       => w.start = w.raw_start
                /\ (\A k \in DOMAIN scenes :
                        Abs(scenes[k].end - w.raw_end) > SnapTolerance * Scale)
                       => w.end = w.raw_end

\* C10: last match wins: the adjusted start is the start of the last
\* scene, in iteration order, whose start is within 2 seconds of the raw
\* start, and the adjusted end the end of the last scene whose end is within
\* 2 seconds of the raw end.
C10_LastMatchWins ==
    (ValidBounds /\ Selected) =>
        \A w \in Range(fallback) :
            LET nearStart == {k \in DOMAIN scenes :
                                 WithinTolerance(scenes[k].start, w.raw_start)}
                nearEnd == {k \in DOMAIN scenes :
                               WithinTolerance(scenes[k].end, w.raw_end)}
                Last(S) == CHOOSE k \in S : \A j \in S : j <= k
            IN  /\ nearStart # {} => w.start = scenes[Last(nearStart)].start
                /\ nearEnd # {} => w.end = scenes[Last(nearEnd)].end

\* C11: with an empty scene list get_natural_cut_points returns an empty
\* list and _find_best_segments returns an empty list for every num_clips,
\* raising nothing: the fallback is not entered and scenes is not indexed.
C11_EmptyScenes ==
    scenes = <<>> =>
        /\ clips = <<>>
        /\ potential_clips = <<>>
        /\ fallback = <<>>
        /\ result = <<>>
        /\ error = "none"

\* C11 witness: _find_best_segments was called for three clips on an empty
\* scene list.
C11_Witness ==
    /\ Selected
    /\ scenes = <<>>
    /\ num_clips = 3
    /\ result = <<>>

\* C12: with num_clips = 0, _find_best_segments returns an empty sequence
\* for every scene list.
C12_ZeroClips ==
    (Selected /\ num_clips = 0) => (result = <<>> /\ error = "none")

\* C12 witness: a call with num_clips = 0 although the segmenter had found
\* two candidates.
C12_Witness ==
    /\ Selected
    /\ num_clips = 0
    /\ Len(potential_clips) >= 2
    /\ result = <<>>

SceneAlone(scene) ==
    [start |-> scene.start, end |-> scene.end, duration |-> scene.duration]

Oversized(scene) == scene.duration > max_clip_duration

\* C13: with 0 < min_duration <= max_duration, get_natural_cut_points emits
\* every scene longer than max_duration as a clip of that scene alone,
\* wherever it stands in the list, and no other emitted clip has
\* duration > max_duration.
C13_OversizedScene ==
    ValidBounds =>
        \A cs \in {clips, potential_clips} :
            (cs = clips /\ Segmented) \/ (cs = potential_clips /\ Selected) =>
                /\ \A k \in DOMAIN scenes :
                       Oversized(scenes[k]) =>
                           \E j \in DOMAIN cs : cs[j] = SceneAlone(scenes[k])
                /\ \A j \in DOMAIN cs :
                       cs[j].duration > max_clip_duration =>
                           \E k \in DOMAIN scenes :
                               /\ Oversized(scenes[k])
                               /\ cs[j] = SceneAlone(scenes[k])

\* C13 witness: an oversized scene between two scenes that fit, and a clip
\* within the bound emitted beside it.
C13_Witness ==
    /\ Segmented
    /\ ValidBounds
    /\ Len(scenes) = 3
    /\ ~Oversized(scenes[1])
    /\ Oversized(scenes[2])
    /\ ~Oversized(scenes[3])
    /\ \E c \in Range(clips) : c.duration <= max_clip_duration

\* C14: every clip get_natural_cut_points emits and every window
\* _find_best_segments returns has end > start and duration = end - start,
\* also when the first scene starts after time 0.
C14_DurationIsEndMinusStart ==
    ValidBounds =>
        \A c \in Range(clips) \cup Range(potential_clips) \cup Range(result) :
            /\ c.end > c.start
            /\ c.duration = c.end - c.start

Seconds(t) == t * Scale

\* the first scenario: six scenes of 10 s from 0 to 60, min 15, max 25
SixTenSecondScenes ==
    /\ scenes = SceneList(0, [k \in 1..6 |-> 10])
    /\ min_clip_duration = Seconds(15)
    /\ max_clip_duration = Seconds(25)

Window(start, end) ==
    [start |-> Seconds(start), end |-> Seconds(end),
     duration |-> Seconds(end - start)]

\* C15: for six contiguous 10-second scenes covering 0..60 with
\* min_duration = 15 and max_duration = 25, get_natural_cut_points emits
\* {0,20}, {20,40} and a final {40,60}, and nothing else.
C15_SixScenes ==
    SixTenSecondScenes =>
        /\ Segmented => clips = <<Window(0, 20), Window(20, 40), Window(40, 60)>>
        /\ Selected =>
               potential_clips = <<Window(0, 20), Window(20, 40), Window(40, 60)>>

\* C15 witness: get_natural_cut_points was called on the six scenes.
C15_Witness ==
    /\ SixTenSecondScenes
    /\ Segmented
    /\ Len(clips) = 3

\* the fourth scenario: two candidates, three clips asked for, and scenes
\* that end at 90 s
TwoCandidatesOfNinety ==
    /\ Selected
    /\ num_clips = 3
    /\ Len(potential_clips) = 2
    /\ scenes # <<>>
    /\ scenes[Len(scenes)].end = Seconds(90)

RawEndsCapped ==
    \A k \in DOMAIN fallback :
        fallback[k].raw_end =
            Min(fallback[k].raw_start + max_clip_duration, Seconds(90))

\* C16, as claimed: with 2 candidates, num_clips = 3 and total = 90 the
\* fallback synthesizes 3 windows with raw starts 15, 45 and 75, each with
\* end = start + max_duration capped at 90.
C16_RawStartsAsClaimed ==
    TwoCandidatesOfNinety =>
        /\ Len(fallback) = 3
        /\ fallback[1].raw_start = Seconds(15)
        /\ fallback[2].raw_start = Seconds(45)
        /\ fallback[3].raw_start = Seconds(75)
        /\ RawEndsCapped

\* C16, amended: the raw starts are 11.25, 33.75 and 56.25, that is
\* 22.5 * (i + 0.5) with interval = 90 / (3 + 1), each with
\* end = start + max_duration capped at 90.
C16_RawStarts ==
    TwoCandidatesOfNinety =>
        /\ Len(fallback) = 3
        /\ 4 * fallback[1].raw_start = Seconds(45)
        /\ 4 * fallback[2].raw_start = Seconds(135)
        /\ 4 * fallback[3].raw_start = Seconds(225)
        /\ RawEndsCapped

\* C16 witness: the scenario happened, with one raw end capped at 90 and
\* one not.
C16_Witness ==
    /\ TwoCandidatesOfNinety
    /\ Len(fallback) = 3
    /\ fallback[1].raw_end < Seconds(90)
    /\ fallback[3].raw_end = Seconds(90)

CompletedNormally == pc = "returned" /\ Selected /\ error = "none"

\* C19: a configuration with min_clip_duration > max_clip_duration, or with
\* a non-positive duration bound, is rejected before the segmenter or the
\* selector runs: a pipeline run that has reached _find_best_segments (and
\* with it get_natural_cut_points) has 0 < min_duration <= max_duration.
C19_BoundsValidated == (pc # "idle" /\ Selected) => ValidBounds

\* C20: at normal completion of process_video / process_local_video,
\* create_clip has been invoked exactly once for every segment that
\* _find_best_segments returned, whatever the outcome of the earlier
\* calls, and each call has added one entry to results['clips'] or to
\* results['errors'].
C20_EverySelectedRendered ==
    CompletedNormally =>
        /\ Len(create_clip_calls) = Len(result)
        /\ \A k \in DOMAIN create_clip_calls :
               /\ create_clip_calls[k].start_time = result[k].start
               /\ create_clip_calls[k].end_time = result[k].end
        /\ Len(results.clips) + Len(results.errors) = Len(result)

\* what the rendering loop does for every num_clips: one call of
\* create_clip per segment of clip_segments[:num_clips], each adding one
\* entry to the clips or to the errors; for num_clips >= 0 that list is
\* the whole of what _find_best_segments returned
EveryLoopSegmentRendered ==
    CompletedNormally =>
        /\ Len(create_clip_calls) = Len(LoopSegments)
        /\ Len(results.clips) + Len(results.errors) = Len(LoopSegments)
        /\ num_clips >= 0 => LoopSegments = result

\* a run in which a clip failed and a later one was still rendered
RenderedAfterFailure ==
    /\ CompletedNormally
    /\ \E a, b \in DOMAIN create_clip_calls :
           a < b /\ ~create_clip_calls[a].success /\ create_clip_calls[b].success

\* ------------------------------------------------- the greedy rule (C21)
\* the accumulated duration of scenes a..b (0 for an empty range)
RECURSIVE ScenesDuration(_, _)
ScenesDuration(a, b) ==
    IF a > b THEN 0 ELSE scenes[b].duration + ScenesDuration(a, b - 1)

\* The scenes at which a window starts, stated as a fixed point instead of
\* a loop: scene 1 starts a window, and a later scene b starts one exactly
\* when adding it to the window of the nearest earlier start a would exceed
\* max_duration.
WindowStarts ==
    CHOOSE W \in SUBSET DOMAIN scenes :
        /\ scenes # <<>> => 1 \in W
        /\ \A b \in DOMAIN scenes \ {1} :
               b \in W <=>
                   \E a \in W :
                       /\ a < b
                       /\ \A c \in (a + 1)..(b - 1) : c \notin W
                       /\ ScenesDuration(a, b) > max_clip_duration

\* The windows as ranges of scenes first..last, closed by scene last + 1 or
\* by the end of the list; the window that is open before scene 1 is empty
\* and is closed by scene 1 when that scene alone exceeds max_duration.
WindowsFrom(W) ==
    {[first |-> a,
      last |-> IF \E b \in W : b > a
               THEN (CHOOSE b \in W : b > a /\ \A c \in W : c > a => b <= c) - 1
               ELSE Len(scenes)] : a \in W}
    \cup (IF scenes # <<>> /\ scenes[1].duration > max_clip_duration
          THEN {[first |-> 1, last |-> 0]}
          ELSE {})

Windows == WindowsFrom(WindowStarts)

WindowDuration(w) == ScenesDuration(w.first, w.last)

EmittedWindows == {w \in Windows : WindowDuration(w) >= min_clip_duration}

\* the start of the scene that closed the window, or the last scene's end
WindowEnd(w) ==
    IF w.last < Len(scenes) THEN scenes[w.last + 1].start
    ELSE scenes[Len(scenes)].end

\* the window was opened by the scene that closed the one before it
OpenedByClose(w) ==
    /\ w.first <= w.last
    /\ w.first > 1 \/ scenes[1].duration > max_clip_duration

\* the scene lies inside the clip
SceneInClip(scene, c) == c.start <= scene.start /\ scene.end <= c.end

\* C21: get_natural_cut_points implements the greedy single-pass rule: a
\* window is closed exactly when adding the next scene would exceed
\* max_duration (or the scenes are exhausted); a closed window is emitted
\* iff its accumulated duration >= min_duration, with end = the start of
\* the scene that closed it (or the last scene's end); emitted or not, the
\* next window starts at that scene's start with that scene's duration.
\* Scenes of a window closed below min_duration are in no emitted clip and
\* every scene is in at most one emitted clip.
C21_GreedyRule ==
    Segmented =>
        LET all == Windows
            emitted == {w \in all : WindowDuration(w) >= min_clip_duration}
        IN  /\ Len(clips) = Cardinality(emitted)
            /\ \A w \in emitted :
                   LET j == Cardinality({v \in emitted : v.last <= w.last})
                   IN  /\ clips[j].duration = WindowDuration(w)
                       /\ clips[j].end = WindowEnd(w)
                       /\ OpenedByClose(w) =>
                              clips[j].start = scenes[w.first].start
            /\ \A k \in DOMAIN scenes :
                   /\ Cardinality({j \in DOMAIN clips :
                                      SceneInClip(scenes[k], clips[j])}) <= 1
                   /\ \A w \in all \ emitted :
                          k \in w.first..w.last =>
                              \A c \in Range(clips) :
                                  ~SceneInClip(scenes[k], c)

\* C21 witness: a call with valid bounds in which a window of at least one
\* scene was closed below the minimum and dropped, and a later window was
\* emitted.
C21_Witness ==
    /\ Segmented
    /\ ValidBounds
    /\ \E w \in Windows \ EmittedWindows :
           /\ w.first <= w.last
           /\ \E v \in EmittedWindows : v.first > w.last
    /\ clips # <<>>

\* C22: _find_best_segments never divides by zero: for every num_clips, 0
\* and -1 included, and every scene list, total / (num_clips + 1) of line
\* 174 is executed only with a non-zero divisor.
C22_NoDivisionByZero ==
    Selected =>
        /\ error # "ZeroDivisionError"
        /\ NeedFallback(potential_clips, num_clips, scenes) =>
               num_clips + 1 # 0

\* C22 witness: a call with num_clips = -1 on a video with scenes and
\* candidates, which returned.
C22_Witness ==
    /\ Selected
    /\ num_clips = -1
    /\ scenes # <<>>
    /\ potential_clips # <<>>
    /\ error = "none"

\* C23: num_clips = 0 is handled by an explicit fast path: the call returns
\* before get_natural_cut_points is invoked (no candidate list is ever
\* computed) and before any fallback window is generated.
C23_FastPath ==
    (Selected /\ num_clips = 0) =>
        /\ potential_clips = <<>>
        /\ fallback = <<>>

\* C24: with valid bounds, the number of windows _find_best_segments
\* returns is at least min(number of segmenter candidates, num_clips): in
\* particular at least one when there is a candidate and num_clips >= 1.
\* Entering the fallback never yields fewer windows than the segmenter had
\* found.
C24_AtLeastCandidates ==
    (Selected /\ ValidBounds /\ error = "none") =>
        Len(result) >= Min(Len(potential_clips), num_clips)

\* the window lies inside the timeline of the scenes
InsideTimeline(w) ==
    /\ 0 <= w.start
    /\ w.start < w.end
    /\ w.end <= scenes[Len(scenes)].end

\* C25: every window _find_best_segments returns lies inside the video
\* timeline, 0 <= start < end <= end of the last scene, on the candidate
\* path and on the fallback path after the snap.
C25_InsideTimeline ==
    Selected => \A w \in Range(result) : InsideTimeline(w)

\* what holds of the returned windows when the bounds are valid
InsideTimelineWithValidBounds == ValidBounds => C25_InsideTimeline

\* the distance, in ticks, of the nearest scene start from t, and of the
\* nearest scene end
NearestSceneStart(t) ==
    CHOOSE d \in {Abs(scenes[k].start - t) : k \in DOMAIN scenes} :
        \A k \in DOMAIN scenes : d <= Abs(scenes[k].start - t)

NearestSceneEnd(t) ==
    CHOOSE d \in {Abs(scenes[k].end - t) : k \in DOMAIN scenes} :
        \A k \in DOMAIN scenes : d <= Abs(scenes[k].end - t)

\* C26: the snap tolerance of _adjust_to_scenes is strict: a boundary of a
\* fallback window is replaced only when a scene boundary lies less than
\* 2 seconds from it; scene boundaries at exactly 2 seconds (or more) do
\* not cause a snap, the raw value is kept.
C26_StrictTolerance ==
    \A w \in Range(fallback) :
        /\ NearestSceneStart(w.raw_start) >= SnapTolerance * Scale =>
               w.start = w.raw_start
        /\ NearestSceneEnd(w.raw_end) >= SnapTolerance * Scale =>
               w.end = w.raw_end

\* C26 witness: a fallback window with a scene boundary exactly 2 seconds
\* from its raw start, or from its raw end, and none nearer.
C26_Witness ==
    /\ OnFallbackPath
    /\ \E w \in Range(fallback) :
           \/ NearestSceneStart(w.raw_start) = SnapTolerance * Scale
           \/ NearestSceneEnd(w.raw_end) = SnapTolerance * Scale

\* the messages of the exceptions that download, transcribe and
\* detect_scenes raise
StageMessages ==
    {"Failed to download video", "Failed to detect scenes"}
    \cup (TranscribeOutcomes \ {"ok"})

\* the run has returned because one of these stages raised
StageRaised ==
    /\ pc = "returned"
    /\ \E k \in DOMAIN results.errors : results.errors[k] \in StageMessages

\* C27: the result of process_video / process_local_video has success =
\* True iff the run completed all stages and at least one clip was rendered
\* successfully; if download, transcription or scene detection raises, the
\* run stops: no selection, no rendering, and the result is success =
\* False with no clips and exactly one error message.
C27_SuccessAndStageFailure ==
    /\ results.success <=>
           /\ CompletedNormally
           /\ \E k \in DOMAIN create_clip_calls : create_clip_calls[k].success
    /\ StageRaised =>
           /\ ~Selected
           /\ potential_clips = <<>>
           /\ create_clip_calls = <<>>
           /\ results = [success |-> FALSE, clips |-> <<>>,
                         errors |-> <<results.errors[1]>>]
           /\ results.errors[1] = "Failed to download video" =>
                  transcript_data = <<>> /\ scenes = <<>>

\* C27 witness: a run of process_video in which download and transcription
\* succeeded and scene detection raised.
C27_Witness ==
    /\ StageRaised
    /\ entry = "process_video"
    /\ transcript_data # <<>>
    /\ results.errors = <<"Failed to detect scenes">>

\* detect_scenes has returned an empty list and the run has gone on
DetectedNoScenes ==
    /\ scenes = <<>>
    /\ \/ pc \in {"analyze", "find_best_segments", "music", "render"}
       \/ pc = "returned" /\ Selected

\* C28: when scene detection returns no scenes, the run terminates normally:
\* nothing raises, create_clip is never invoked, and the result is success
\* = False with an empty clips list and an empty errors list.
C28_NoScenes ==
    DetectedNoScenes =>
        /\ error = "none"
        /\ result = <<>>
        /\ create_clip_calls = <<>>
        /\ results = EmptyResults
        /\ pc = "render" => clip_index = Len(LoopSegments)

\* C28 witness: a run asked for at least one clip that has returned after
\* scene detection found no scenes.
C28_Witness ==
    /\ DetectedNoScenes
    /\ pc = "returned"
    /\ num_clips >= 1
    /\ transcript_data # <<>>

\* only one run is at work: the others have not started or have returned
Sequential ==
    \A a, b \in Runs :
        a # b => runs[a].pc \in {"idle", "returned"}
                 \/ runs[b].pc \in {"idle", "returned"}

\* C29: pipeline runs do not share files: for any two runs on different
\* videos, sequential or interleaved, the clip and thumbnail files one run
\* has written and returned still hold that run's data, whatever the other
\* run has done since, and the audio a run transcribes is its own video's.
C29_NoSharedFiles ==
    \A id \in DOMAIN runs :
        /\ \A k \in DOMAIN runs[id].clips :
               /\ files[runs[id].clips[k].video_path] = id
               /\ files[runs[id].clips[k].thumbnail_path] = id
        /\ runs[id].transcribed \in {0, id}
        /\ runs[id].errors = <<>>

\* the same of runs made one after the other only: the clips a run has
\* returned are still its own when a later run has finished
NoSharedFilesSequential ==
    [](Sequential) =>
        [](\A id \in DOMAIN runs :
               \A k \in DOMAIN runs[id].clips :
                   files[runs[id].clips[k].video_path] = id)

\* the transcript segments that lie wholly inside [start, end]
WholeSegments(start, end) ==
    {j \in DOMAIN transcript_data :
        /\ transcript_data[j].start >= start
        /\ transcript_data[j].end <= end}

\* the transcript segments that reach into [start, end] and out of it
StraddlingSegments(start, end) ==
    {j \in DOMAIN transcript_data :
        /\ transcript_data[j].end > start
        /\ transcript_data[j].start < end
        /\ j \notin WholeSegments(start, end)}

\* the texts of the segments J in transcript order with one space between
\* two of them, built from the last one back
RECURSIVE SpacedTexts(_)
SpacedTexts(J) ==
    IF J = {} THEN <<>>
    ELSE LET last == CHOOSE j \in J : \A i \in J : i <= j
         IN  IF J = {last} THEN transcript_data[last].text
             ELSE SpacedTexts(J \ {last}) \o <<" ">>
                      \o transcript_data[last].text

\* C30: _get_clip_text(segments, start, end) returns the texts, joined by
\* single spaces and in transcript order, of exactly the segments wholly
\* inside the range; a segment that straddles a boundary contributes
\* nothing, and a range with no whole segment yields the empty string.
C30_ClipText ==
    text_call # <<>> =>
        LET J == WholeSegments(text_call.start, text_call.end)
        IN  /\ text_call.text = SpacedTexts(J)
            /\ J = {} => text_call.text = <<>>
            /\ J # {} =>
                   Cardinality({c \in DOMAIN text_call.text :
                                   text_call.text[c] = " "})
                       = Cardinality(J) - 1

\* C30 witness: a call whose range holds two whole segments and cuts
\* through a third.
C30_Witness ==
    /\ text_call # <<>>
    /\ Cardinality(WholeSegments(text_call.start, text_call.end)) = 2
    /\ StraddlingSegments(text_call.start, text_call.end) # {}

====
